---- MODULE Spec2Model ----
(***************************************************************************)
(* Miner health monitor: the health classifier (analyze_health) and the    *)
(* adaptive monitoring controller (handle_health_status driven by the run  *)
(* loop) of src/miner_health_monitor_simulation.py.                        *)
(*                                                                         *)
(* Temperatures are fixed-point, in hundredths of a degree Celsius         *)
(* (35.5 C is 3550): the source rounds its readings to two decimals and    *)
(* the four thresholds 35.0, 35.5, 38.5 and 40.0 are exact in binary       *)
(* floating point, so every comparison of the source is the integer        *)
(* comparison made here.                                                   *)
(***************************************************************************)
EXTENDS Integers, Sequences, FiniteSets

VARIABLES
    current_state,        \* self.current_state       (SystemState)
    health_status,        \* self.health_status       (HealthStatus)
    vitals,               \* self.vitals              (VitalSigns)
    monitoring_interval,  \* self.monitoring_interval (seconds)
    anomaly_count,        \* self.anomaly_count
    emergency_sent,       \* self.emergency_sent
    measurement_count,    \* self.measurement_count
    cycle_count,          \* cycle_count, local to run()
    sent,                 \* the transmit_data calls of the latest cycle
    delivered,            \* whether the latest transmit_data call reached
                          \* the gateway: "none" before the first call
    slept,                \* the argument of the latest time.sleep of the
                          \* sleep phase (seconds)
    pc,                   \* position of the program
    history,              \* one record per completed cycle (observer)
    dashboard             \* the MinerDashboard of
                          \* src/miner_health_monitor_dashboard.py

vars == <<current_state, health_status, vitals, monitoring_interval,
          anomaly_count, emergency_sent, measurement_count, cycle_count,
          sent, delivered, slept, pc, history, dashboard>>

-----------------------------------------------------------------------------
(* Bounds of the model *)

\* number of cycles of the run loop that are explored
MaxCycles == 6

\* the classifier is applied to every reading within Margin of a threshold
Margin == 1

\* max_data_points, the capacity the dashboard is constructed with
MaxPoints == 3

\* number of dashboard calls that are explored
MaxMeasurements == 6

\* the simulated source is explored up to its call number MaxCalls: the
\* anomalies come every 8th, 12th and 15th call, a period of 120 calls
MaxCalls == 120

-----------------------------------------------------------------------------
(* Thresholds and intervals, class MinerHealthMonitor *)

SPO2_MIN_NORMAL == 92
SPO2_MIN_CRITICAL == 85
HEART_RATE_MIN == 45
HEART_RATE_MAX == 120
HEART_RATE_CRITICAL_MIN == 40
HEART_RATE_CRITICAL_MAX == 150
TEMP_MIN_NORMAL == 3550
TEMP_MAX_NORMAL == 3850
TEMP_CRITICAL_MIN == 3500
TEMP_CRITICAL_MAX == 4000

NORMAL_INTERVAL == 35
EXTENDED_INTERVAL == 10
EMERGENCY_INTERVAL == 5

\* the longest sleep phase of run(), "shortened for demo"
SLEEP_CAP == 2

\* enum SystemState
SystemState ==
    {"SLEEP", "WAKING", "MONITORING", "EXTENDED_MONITORING", "EMERGENCY",
     "TRANSMITTING"}

\* enum HealthStatus
HealthStatus == {"NORMAL", "WARNING", "CRITICAL", "EMERGENCY"}

\* VitalSigns(): the fields the classifier and the transmitter read
VitalSigns ==
    [spo2 |-> 0, heart_rate |-> 0, temperature |-> 0, fall_detected |-> FALSE]

-----------------------------------------------------------------------------
(* analyze_health *)

\* check_spo2 with the critical bound included
check_spo2_inclusive(v) ==
    IF v.spo2 <= SPO2_MIN_CRITICAL THEN <<1, 0>>
    ELSE IF v.spo2 < SPO2_MIN_NORMAL THEN <<0, 1>>
    ELSE <<0, 0>>

\* the SpO2 check: <<critical flags, warning flags>> it contributes
check_spo2(v) ==
    IF v.spo2 < SPO2_MIN_CRITICAL THEN <<1, 0>>
    ELSE IF v.spo2 < SPO2_MIN_NORMAL THEN <<0, 1>>
    ELSE <<0, 0>>

\* check_heart_rate with the upper normal bound excluded
check_heart_rate_inclusive(v) ==
    IF v.heart_rate < HEART_RATE_CRITICAL_MIN
       \/ v.heart_rate > HEART_RATE_CRITICAL_MAX THEN <<1, 0>>
    ELSE IF v.heart_rate < HEART_RATE_MIN
            \/ v.heart_rate >= HEART_RATE_MAX THEN <<0, 1>>
    ELSE <<0, 0>>

\* the heart rate check
check_heart_rate(v) ==
    IF v.heart_rate < HEART_RATE_CRITICAL_MIN
       \/ v.heart_rate > HEART_RATE_CRITICAL_MAX THEN <<1, 0>>
    ELSE IF v.heart_rate < HEART_RATE_MIN
            \/ v.heart_rate > HEART_RATE_MAX THEN <<0, 1>>
    ELSE <<0, 0>>

\* check_temperature with "and" for "or" in the critical test
check_temperature_and(v) ==
    IF v.temperature < TEMP_CRITICAL_MIN
       /\ v.temperature > TEMP_CRITICAL_MAX THEN <<1, 0>>
    ELSE IF v.temperature < TEMP_MIN_NORMAL
            \/ v.temperature > TEMP_MAX_NORMAL THEN <<0, 1>>
    ELSE <<0, 0>>

\* the temperature check
check_temperature(v) ==
    IF v.temperature < TEMP_CRITICAL_MIN
       \/ v.temperature > TEMP_CRITICAL_MAX THEN <<1, 0>>
    ELSE IF v.temperature < TEMP_MIN_NORMAL
            \/ v.temperature > TEMP_MAX_NORMAL THEN <<0, 1>>
    ELSE <<0, 0>>

\* the fall check
check_fall(v) == IF v.fall_detected THEN <<1, 0>> ELSE <<0, 0>>

\* the decision on the two counters
determine_status(critical_flags, warning_flags, v) ==
    IF critical_flags > 0 \/ v.fall_detected THEN "EMERGENCY"
    ELSE IF warning_flags >= 2 THEN "CRITICAL"
    ELSE IF warning_flags > 0 THEN "WARNING"
    ELSE "NORMAL"

analyze_health(v) ==
    LET s == check_spo2(v)
        h == check_heart_rate(v)
        t == check_temperature(v)
        f == check_fall(v)
        critical_flags == s[1] + h[1] + t[1] + f[1]
        warning_flags == s[2] + h[2] + t[2] + f[2]
    IN determine_status(critical_flags, warning_flags, v)

-----------------------------------------------------------------------------
(* transmit_data and handle_health_status *)

\* What transmit_data reports: the flag it is called with, self.vitals and
\* self.health_status.
transmit_data(is_emergency, v, hs) ==
    [is_emergency |-> is_emergency, vitals |-> v, health_status |-> hs]

\* The controller fields handle_health_status reads and writes, and the
\* transmissions it has made: c is
\*   [current_state, monitoring_interval, anomaly_count, emergency_sent, sent].
Controller ==
    [current_state |-> current_state,
     monitoring_interval |-> monitoring_interval,
     anomaly_count |-> anomaly_count,
     emergency_sent |-> emergency_sent,
     sent |-> << >>]

\* handle_normal putting the controller back to SLEEP
handle_normal_to_sleep(c) ==
    [c EXCEPT !.monitoring_interval = NORMAL_INTERVAL,
              !.anomaly_count = 0,
              !.emergency_sent = FALSE,
              !.current_state = "SLEEP"]

\* handle_normal without the reset of the counter
handle_normal_keeps_count(c) ==
    [c EXCEPT !.monitoring_interval = NORMAL_INTERVAL,
              !.emergency_sent = FALSE]

\* status == HealthStatus.NORMAL
handle_normal(c) ==
    [c EXCEPT !.monitoring_interval = NORMAL_INTERVAL,
              !.anomaly_count = 0,
              !.emergency_sent = FALSE]

\* handle_warning escalating on the first warning
handle_warning_at_once(c) ==
    LET n == c.anomaly_count + 1
    IN IF n >= 1
       THEN [c EXCEPT !.anomaly_count = n,
                      !.monitoring_interval = EXTENDED_INTERVAL,
                      !.current_state = "EXTENDED_MONITORING"]
       ELSE [c EXCEPT !.anomaly_count = n]

\* status == HealthStatus.WARNING
handle_warning(c) ==
    LET n == c.anomaly_count + 1
    IN IF n >= 2
       THEN [c EXCEPT !.anomaly_count = n,
                      !.monitoring_interval = EXTENDED_INTERVAL,
                      !.current_state = "EXTENDED_MONITORING"]
       ELSE [c EXCEPT !.anomaly_count = n]

\* handle_critical sharing the latch of the emergency branch
handle_critical_latched(c, v, hs) ==
    LET d == [c EXCEPT !.monitoring_interval = EXTENDED_INTERVAL,
                       !.current_state = "EXTENDED_MONITORING"]
    IN IF ~d.emergency_sent
       THEN [d EXCEPT !.sent = Append(d.sent, transmit_data(FALSE, v, hs)),
                      !.emergency_sent = TRUE]
       ELSE d

\* handle_critical clearing the latch
handle_critical_rearms(c, v, hs) ==
    [c EXCEPT !.monitoring_interval = EXTENDED_INTERVAL,
              !.current_state = "EXTENDED_MONITORING",
              !.emergency_sent = FALSE,
              !.sent = Append(c.sent, transmit_data(FALSE, v, hs))]

\* handle_critical transmitting as an emergency
handle_critical_as_emergency(c, v, hs) ==
    [c EXCEPT !.monitoring_interval = EXTENDED_INTERVAL,
              !.current_state = "EXTENDED_MONITORING",
              !.sent = Append(c.sent, transmit_data(TRUE, v, hs))]

\* handle_critical without the assignment of the state
handle_critical_keeps_state(c, v, hs) ==
    [c EXCEPT !.monitoring_interval = EXTENDED_INTERVAL,
              !.sent = Append(c.sent, transmit_data(FALSE, v, hs))]

\* status == HealthStatus.CRITICAL
handle_critical(c, v, hs) ==
    [c EXCEPT !.monitoring_interval = EXTENDED_INTERVAL,
              !.current_state = "EXTENDED_MONITORING",
              !.sent = Append(c.sent, transmit_data(FALSE, v, hs))]

\* handle_emergency without the test of the latch
handle_emergency_unlatched(c, v, hs) ==
    LET d == [c EXCEPT !.monitoring_interval = EMERGENCY_INTERVAL,
                       !.current_state = "EMERGENCY"]
    IN [d EXCEPT !.sent = Append(d.sent, transmit_data(TRUE, v, hs)),
                 !.emergency_sent = TRUE]

\* handle_emergency asking for the next measurement at once
handle_emergency_immediate(c, v, hs) ==
    LET d == [c EXCEPT !.monitoring_interval = 0,
                       !.current_state = "EMERGENCY"]
    IN IF ~d.emergency_sent
       THEN [d EXCEPT !.sent = Append(d.sent, transmit_data(TRUE, v, hs)),
                      !.emergency_sent = TRUE]
       ELSE d

\* handle_emergency without the assignment of the latch
handle_emergency_never_latches(c, v, hs) ==
    LET d == [c EXCEPT !.monitoring_interval = EMERGENCY_INTERVAL,
                       !.current_state = "EMERGENCY"]
    IN IF ~d.emergency_sent
       THEN [d EXCEPT !.sent = Append(d.sent, transmit_data(TRUE, v, hs))]
       ELSE d

\* status == HealthStatus.EMERGENCY
handle_emergency(c, v, hs) ==
    LET d == [c EXCEPT !.monitoring_interval = EMERGENCY_INTERVAL,
                       !.current_state = "EMERGENCY"]
    IN IF ~d.emergency_sent
       THEN [d EXCEPT !.sent = Append(d.sent, transmit_data(TRUE, v, hs)),
                      !.emergency_sent = TRUE]
       ELSE d

\* handle_health_status(status), with self.vitals = v and
\* self.health_status = hs
handle_health_status(c, status, v, hs) ==
    IF status = "NORMAL" THEN handle_normal(c)
    ELSE IF status = "WARNING" THEN handle_warning(c)
    ELSE IF status = "CRITICAL" THEN handle_critical(c, v, hs)
    ELSE IF status = "EMERGENCY" THEN handle_emergency(c, v, hs)
    ELSE c

\* end_of_cycle leaving the loop in MONITORING
end_of_cycle_monitoring(cs) ==
    IF cs = "EMERGENCY" THEN cs
    ELSE IF cs = "EXTENDED_MONITORING" THEN cs
    ELSE "MONITORING"

\* the end of a cycle of run(): the state goes back to SLEEP unless it is
\* EMERGENCY or EXTENDED_MONITORING
end_of_cycle(cs) ==
    IF cs = "EMERGENCY" THEN cs
    ELSE IF cs = "EXTENDED_MONITORING" THEN cs
    ELSE "SLEEP"

\* the sleep phase of a cycle without the cap
sleep_phase_whole(interval) == interval

\* the sleep phase of a cycle: time.sleep(min(self.monitoring_interval, 2))
sleep_phase(interval) ==
    IF interval < SLEEP_CAP THEN interval ELSE SLEEP_CAP

-----------------------------------------------------------------------------
(* The dashboard, src/miner_health_monitor_dashboard.py *)

\* thresholds of class MinerHealthMonitorGraphical
GRAPHICAL_SPO2_MIN_NORMAL == 92
GRAPHICAL_SPO2_MIN_CRITICAL == 85
GRAPHICAL_HEART_RATE_MIN == 45
GRAPHICAL_HEART_RATE_MAX == 120
GRAPHICAL_TEMP_MIN_NORMAL == 3550
GRAPHICAL_TEMP_MAX_NORMAL == 3850

\* the classifier of the dashboard with the upper critical heart rate
\* included
graphical_analyze_health_inclusive(heart_rate, spo2, temperature) ==
    LET s == IF spo2 < GRAPHICAL_SPO2_MIN_CRITICAL THEN <<1, 0>>
             ELSE IF spo2 < GRAPHICAL_SPO2_MIN_NORMAL THEN <<0, 1>>
             ELSE <<0, 0>>
        h == IF heart_rate < 40 \/ heart_rate >= 150 THEN <<1, 0>>
             ELSE IF heart_rate < GRAPHICAL_HEART_RATE_MIN
                     \/ heart_rate > GRAPHICAL_HEART_RATE_MAX THEN <<0, 1>>
             ELSE <<0, 0>>
        t == IF temperature < 3500 \/ temperature > 4000 THEN <<1, 0>>
             ELSE IF temperature < GRAPHICAL_TEMP_MIN_NORMAL
                     \/ temperature > GRAPHICAL_TEMP_MAX_NORMAL THEN <<0, 1>>
             ELSE <<0, 0>>
        critical_flags == s[1] + h[1] + t[1]
        warning_flags == s[2] + h[2] + t[2]
    IN IF critical_flags > 0 THEN "EMERGENCY"
       ELSE IF warning_flags >= 2 THEN "CRITICAL"
       ELSE IF warning_flags > 0 THEN "WARNING"
       ELSE "NORMAL"

\* MinerHealthMonitorGraphical.analyze_health(heart_rate, spo2, temperature)
graphical_analyze_health(heart_rate, spo2, temperature) ==
    LET s == IF spo2 < GRAPHICAL_SPO2_MIN_CRITICAL THEN <<1, 0>>
             ELSE IF spo2 < GRAPHICAL_SPO2_MIN_NORMAL THEN <<0, 1>>
             ELSE <<0, 0>>
        h == IF heart_rate < 40 \/ heart_rate > 150 THEN <<1, 0>>
             ELSE IF heart_rate < GRAPHICAL_HEART_RATE_MIN
                     \/ heart_rate > GRAPHICAL_HEART_RATE_MAX THEN <<0, 1>>
             ELSE <<0, 0>>
        t == IF temperature < 3500 \/ temperature > 4000 THEN <<1, 0>>
             ELSE IF temperature < GRAPHICAL_TEMP_MIN_NORMAL
                     \/ temperature > GRAPHICAL_TEMP_MAX_NORMAL THEN <<0, 1>>
             ELSE <<0, 0>>
        critical_flags == s[1] + h[1] + t[1]
        warning_flags == s[2] + h[2] + t[2]
    IN IF critical_flags > 0 THEN "EMERGENCY"
       ELSE IF warning_flags >= 2 THEN "CRITICAL"
       ELSE IF warning_flags > 0 THEN "WARNING"
       ELSE "NORMAL"

\* deque(maxlen=maxlen).append(x): a full deque drops its oldest element
deque_append(d, x, maxlen) ==
    IF maxlen = 0 THEN << >>
    ELSE IF Len(d) < maxlen THEN Append(d, x)
    ELSE Append(Tail(d), x)

\* max(a, b)
max(a, b) == IF a >= b THEN a ELSE b

\* MinerDashboard(max_data_points) after __init__ and setup_dashboard: the
\* six buffers, the system parameters, and of the plot the x data of the
\* lines and the x limits.  battery_level is in hundredths of a percent.
MinerDashboard(max_data_points) ==
    [max_points |-> max_data_points,
     time_data |-> << >>,
     heart_rate_data |-> << >>,
     spo2_data |-> << >>,
     temperature_data |-> << >>,
     battery_data |-> << >>,
     power_mode_data |-> << >>,
     battery_level |-> 10000,
     measurement_count |-> 0,
     health_status |-> "NORMAL",
     power_mode |-> "SLEEP",
     last_transmission |-> "Never",
     line_x |-> << >>,
     xlim |-> << >>]

\* update_plots: the lines get list(self.time_data) as x data and the axes
\* their x limits
update_plots(d) ==
    [d EXCEPT !.line_x = d.time_data,
              !.xlim = <<max(0, Len(d.time_data) - 50),
                         max(50, Len(d.time_data))>>]

\* add_measurement(heart_rate, spo2, temperature, power_active)
add_measurement(d, heart_rate, spo2, temperature, power_active) ==
    LET current_time == Len(d.time_data)
        discharge_rate == IF power_active THEN 8 ELSE 2
        level == max(0, d.battery_level - discharge_rate)
    IN update_plots(
        [d EXCEPT
            !.time_data = deque_append(@, current_time, d.max_points),
            !.heart_rate_data = deque_append(@, heart_rate, d.max_points),
            !.spo2_data = deque_append(@, spo2, d.max_points),
            !.temperature_data = deque_append(@, temperature, d.max_points),
            !.power_mode = IF power_active THEN "ACTIVE" ELSE "SLEEP",
            !.battery_level = level,
            !.battery_data = deque_append(@, level, d.max_points),
            !.power_mode_data =
                deque_append(@, IF power_active THEN 1 ELSE 0, d.max_points),
            !.measurement_count = @ + 1])

\* set_health_status(status); last_transmission becomes the time of day
set_health_status(d, status) ==
    IF status \in {"CRITICAL", "EMERGENCY"}
    THEN [d EXCEPT !.health_status = status, !.last_transmission = "now"]
    ELSE [d EXCEPT !.health_status = status]

-----------------------------------------------------------------------------
(* The readings *)

Around(t) == (t - Margin) .. (t + Margin)

\* readings at and next to every threshold of the classifier
SpO2Readings == Around(SPO2_MIN_CRITICAL) \cup Around(SPO2_MIN_NORMAL)

HeartRateReadings ==
    Around(HEART_RATE_CRITICAL_MIN) \cup Around(HEART_RATE_MIN)
    \cup Around(HEART_RATE_MAX) \cup Around(HEART_RATE_CRITICAL_MAX)

TemperatureReadings ==
    Around(TEMP_CRITICAL_MIN) \cup Around(TEMP_MIN_NORMAL)
    \cup Around(TEMP_MAX_NORMAL) \cup Around(TEMP_CRITICAL_MAX)

Readings ==
    [spo2 : SpO2Readings, heart_rate : HeartRateReadings,
     temperature : TemperatureReadings, fall_detected : BOOLEAN]

\* the readings handed to the run loop: every status, each reached in more
\* than one way
CycleReadings ==
    [spo2 : {80, 90, 97}, heart_rate : {78, 130},
     temperature : {3680, 3900}, fall_detected : BOOLEAN]

-----------------------------------------------------------------------------
(* The program *)

\* The four controller fields of c
Fields(c) ==
    [current_state |-> c.current_state,
     monitoring_interval |-> c.monitoring_interval,
     anomaly_count |-> c.anomaly_count,
     emergency_sent |-> c.emergency_sent]

\* What is recorded of a cycle: its status, the controller fields before
\* and after it, the is_emergency flag of each transmission it made, and
\* the sleep it began with
Observe(status, before, after, nap) ==
    [status |-> status,
     pre |-> Fields(before),
     post |-> [Fields(after) EXCEPT
               !.current_state = end_of_cycle(after.current_state)],
     flags |-> [i \in 1..Len(after.sent) |-> after.sent[i].is_emergency],
     slept |-> nap]

\* transmit_data returns nothing: whether a transmission arrives is not seen
\* by the monitor
Outcomes(c) == IF c.sent = << >> THEN {delivered} ELSE {"ok", "failed"}

\* MinerHealthMonitor.__init__
Init ==
    /\ current_state = "SLEEP"
    /\ health_status = "NORMAL"
    /\ vitals = VitalSigns
    /\ monitoring_interval = NORMAL_INTERVAL
    /\ anomaly_count = 0
    /\ emergency_sent = FALSE
    /\ measurement_count = 0
    /\ cycle_count = 0
    /\ sent = << >>
    /\ delivered = "none"
    /\ slept = 0
    /\ pc = "init"
    /\ history = << >>
    /\ dashboard = MinerDashboard(MaxPoints)

\* RunCycle calling handle_health_status before self.health_status is
\* assigned
RunCycle_stale(v) ==
    /\ cycle_count < MaxCycles
    /\ LET nap == sleep_phase(monitoring_interval)
           status == analyze_health(v)
           c == handle_health_status(Controller, status, v, health_status)
       IN /\ slept' = nap
          /\ vitals' = v
          /\ measurement_count' = measurement_count + 1
          /\ cycle_count' = cycle_count + 1
          /\ health_status' = status
          /\ monitoring_interval' = c.monitoring_interval
          /\ anomaly_count' = c.anomaly_count
          /\ emergency_sent' = c.emergency_sent
          /\ sent' = c.sent
          /\ delivered' \in Outcomes(c)
          /\ current_state' = end_of_cycle(c.current_state)
          /\ pc' = "cycle_end"
          /\ history' = Append(history, Observe(status, Controller, c, nap))
          /\ UNCHANGED dashboard

\* One cycle of the loop of run(): the sleep phase, then the source delivers
\* the reading v, it is classified, handle_health_status acts on the status,
\* and the cycle ends.
RunCycle(v) ==
    /\ cycle_count < MaxCycles
    /\ LET nap == sleep_phase(monitoring_interval)
           status == analyze_health(v)
           c == handle_health_status(Controller, status, v, status)
       IN /\ slept' = nap
          /\ vitals' = v
          /\ measurement_count' = measurement_count + 1
          /\ cycle_count' = cycle_count + 1
          /\ health_status' = status
          /\ monitoring_interval' = c.monitoring_interval
          /\ anomaly_count' = c.anomaly_count
          /\ emergency_sent' = c.emergency_sent
          /\ sent' = c.sent
          /\ delivered' \in Outcomes(c)
          /\ current_state' = end_of_cycle(c.current_state)
          /\ pc' = "cycle_end"
          /\ history' = Append(history, Observe(status, Controller, c, nap))
          /\ UNCHANGED dashboard

Next == \E v \in CycleReadings : RunCycle(v)

Spec == Init /\ [][Next]_vars

-----------------------------------------------------------------------------
(* The classifier on its own: analyze_health applied to a reading *)

InitClassify ==
    /\ current_state = "SLEEP"
    /\ health_status = "NORMAL"
    /\ vitals \in Readings
    /\ monitoring_interval = NORMAL_INTERVAL
    /\ anomaly_count = 0
    /\ emergency_sent = FALSE
    /\ measurement_count = 0
    /\ cycle_count = 0
    /\ sent = << >>
    /\ delivered = "none"
    /\ slept = 0
    /\ pc = "init"
    /\ history = << >>
    /\ dashboard = MinerDashboard(MaxPoints)

\* Analyze also counting the reading as an anomaly
Analyze_counts_anomaly ==
    /\ pc = "init"
    /\ health_status' = analyze_health(vitals)
    /\ anomaly_count' =
           IF analyze_health(vitals) = "NORMAL" THEN 0 ELSE anomaly_count + 1
    /\ pc' = "analyzed"
    /\ UNCHANGED <<current_state, vitals, monitoring_interval,
                   emergency_sent, measurement_count, cycle_count, sent,
                   delivered, slept, history, dashboard>>

\* self.health_status = self.analyze_health()
Analyze ==
    /\ pc = "init"
    /\ health_status' = analyze_health(vitals)
    /\ pc' = "analyzed"
    /\ UNCHANGED <<current_state, vitals, monitoring_interval, anomaly_count,
                   emergency_sent, measurement_count, cycle_count, sent,
                   delivered, slept, history, dashboard>>

\* analyze_health called once more on the same reading
AnalyzeAgain ==
    /\ pc = "analyzed"
    /\ health_status' = analyze_health(vitals)
    /\ pc' = "analyzed_twice"
    /\ UNCHANGED <<current_state, vitals, monitoring_interval, anomaly_count,
                   emergency_sent, measurement_count, cycle_count, sent,
                   delivered, slept, history, dashboard>>

NextClassify == Analyze \/ AnalyzeAgain

SpecClassify == InitClassify /\ [][NextClassify]_vars

-----------------------------------------------------------------------------
(* The controller: claims C1 to C7, checked under Spec *)

Cycles == 1..Len(history)

\* C1: after any cycle whose status is NORMAL, whatever the controller state
\* before it, anomaly_count = 0, emergency_sent = FALSE, the interval is
\* NORMAL_INTERVAL and current_state = SLEEP.
C1_NormalCycleGoesToSleep ==
    (pc = "cycle_end" /\ health_status = "NORMAL") =>
        /\ anomaly_count = 0
        /\ emergency_sent = FALSE
        /\ monitoring_interval = 35
        /\ current_state = "SLEEP"

\* C2: every EMERGENCY cycle sets the interval to 5 and the state to
\* EMERGENCY; one entered with the latch clear makes exactly one
\* transmission, with is_emergency true, and sets the latch; the EMERGENCY
\* cycles that follow it without interruption make none.
C2_EmergencyTransmitsOnce ==
    \A i \in Cycles :
        history[i].status = "EMERGENCY" =>
            /\ history[i].post.monitoring_interval = 5
            /\ history[i].post.current_state = "EMERGENCY"
            /\ ~history[i].pre.emergency_sent =>
                   /\ history[i].flags = <<TRUE>>
                   /\ history[i].post.emergency_sent
            /\ \A j \in Cycles :
                   (j > i /\ \A k \in i..j : history[k].status = "EMERGENCY")
                       => history[j].flags = << >>

C2_Witness ==
    /\ Len(history) >= 3
    /\ \A k \in 1..3 : history[k].status = "EMERGENCY"
    /\ ~history[1].pre.emergency_sent
    /\ history[1].flags = <<TRUE>>
    /\ history[2].flags = << >>
    /\ history[3].flags = << >>

\* C3: every CRITICAL cycle makes exactly one transmission, with
\* is_emergency false, whatever the latch and whatever the previous cycle,
\* and sets the interval to 10 and the state to EXTENDED_MONITORING.
C3_CriticalAlwaysTransmits ==
    \A i \in Cycles :
        history[i].status = "CRITICAL" =>
            /\ history[i].flags = <<FALSE>>
            /\ history[i].post.monitoring_interval = 10
            /\ history[i].post.current_state = "EXTENDED_MONITORING"

C3_Witness ==
    /\ Len(history) >= 3
    /\ history[1].status = "EMERGENCY"
    /\ history[2].status = "CRITICAL"
    /\ history[3].status = "CRITICAL"
    /\ history[3].pre.emergency_sent
    /\ history[2].flags = <<FALSE>>
    /\ history[3].flags = <<FALSE>>

\* C4: a WARNING cycle entered with anomaly_count = 0 brings the count to 1
\* and leaves interval and state as they were; a second WARNING cycle right
\* after it brings the count to 2, the interval to 10 and the state to
\* EXTENDED_MONITORING.
C4_SecondWarningEscalates ==
    \A i \in Cycles :
        (history[i].status = "WARNING" /\ history[i].pre.anomaly_count = 0) =>
            /\ history[i].post.anomaly_count = 1
            /\ history[i].post.monitoring_interval
                   = history[i].pre.monitoring_interval
            /\ history[i].post.current_state = history[i].pre.current_state
            /\ (i + 1 \in Cycles /\ history[i + 1].status = "WARNING") =>
                   /\ history[i + 1].post.anomaly_count = 2
                   /\ history[i + 1].post.monitoring_interval = 10
                   /\ history[i + 1].post.current_state
                          = "EXTENDED_MONITORING"

C4_Witness ==
    /\ Len(history) = 2
    /\ history[1].status = "WARNING"
    /\ history[2].status = "WARNING"
    /\ history[1].post.current_state = "SLEEP"
    /\ history[1].post.monitoring_interval = 35
    /\ anomaly_count = 2
    /\ current_state = "EXTENDED_MONITORING"

\* C5: a WARNING or CRITICAL cycle leaves emergency_sent as it was, so the
\* second EMERGENCY cycle of EMERGENCY, (WARNING or CRITICAL)*, EMERGENCY
\* makes no transmission, while an EMERGENCY cycle that follows a NORMAL
\* cycle makes its transmission.
C5_LatchRearmedOnlyByNormal ==
    /\ \A i \in Cycles :
           history[i].status \in {"WARNING", "CRITICAL"} =>
               history[i].post.emergency_sent = history[i].pre.emergency_sent
    /\ \A i, j \in Cycles :
           ( /\ i < j
             /\ history[i].status = "EMERGENCY"
             /\ history[j].status = "EMERGENCY"
             /\ \A k \in (i + 1)..(j - 1) :
                    history[k].status \in {"WARNING", "CRITICAL"} )
               => history[j].flags = << >>
    /\ \A i \in Cycles :
           ( /\ i > 1
             /\ history[i - 1].status = "NORMAL"
             /\ history[i].status = "EMERGENCY" )
               => history[i].flags = <<TRUE>>

C5_Witness ==
    /\ Len(history) = 6
    /\ history[1].status = "EMERGENCY"
    /\ history[2].status = "WARNING"
    /\ history[3].status = "CRITICAL"
    /\ history[4].status = "EMERGENCY"
    /\ history[4].flags = << >>
    /\ history[5].status = "NORMAL"
    /\ history[6].status = "EMERGENCY"
    /\ history[6].flags = <<TRUE>>

\* the last NORMAL cycle, 0 when there has been none
LastNormal ==
    LET N == {i \in Cycles : history[i].status = "NORMAL"}
    IN IF N = {} THEN 0 ELSE CHOOSE i \in N : \A j \in N : j <= i

\* C6 as stated: anomaly_count is the number of cycles since the last NORMAL
\* cycle or since startup, all of them WARNING, CRITICAL or EMERGENCY.
C6_CountsCyclesSinceNormal ==
    anomaly_count = Len(history) - LastNormal

\* C6, amended: anomaly_count is the number of WARNING cycles since the last
\* NORMAL cycle or since startup; CRITICAL and EMERGENCY cycles leave it as
\* it is.
C6_CountsWarningsSinceNormal ==
    anomaly_count =
        Cardinality({i \in Cycles :
                        i > LastNormal /\ history[i].status = "WARNING"})

C6_Witness ==
    /\ Len(history) = 5
    /\ history[1].status = "WARNING"
    /\ history[2].status = "NORMAL"
    /\ history[3].status = "WARNING"
    /\ history[4].status = "CRITICAL"
    /\ history[5].status = "WARNING"
    /\ anomaly_count = 2

\* C7: the monitoring interval is always one of 35, 10 and 5.
C7_IntervalIsOneOfThree ==
    /\ monitoring_interval \in {35, 10, 5}
    /\ \A i \in Cycles : history[i].post.monitoring_interval \in {35, 10, 5}

C7_Witness ==
    /\ monitoring_interval = 35
    /\ \E i, j \in Cycles :
           /\ history[i].post.monitoring_interval = 10
           /\ history[j].post.monitoring_interval = 5

-----------------------------------------------------------------------------
(* The classifier: claims C8 to C10, checked under SpecClassify *)

\* the bands of the three signals, as the specification states them
SpO2InCriticalBand(v) == v.spo2 < 85
HeartRateInCriticalBand(v) == v.heart_rate < 40 \/ v.heart_rate > 150
TemperatureInCriticalBand(v) == v.temperature < 3500 \/ v.temperature > 4000

SpO2InWarningBand(v) == v.spo2 \in 85..91
HeartRateInWarningBand(v) ==
    v.heart_rate \in 40..44 \/ v.heart_rate \in 121..150
TemperatureInWarningBand(v) ==
    \/ (3500 <= v.temperature /\ v.temperature < 3550)
    \/ (3850 < v.temperature /\ v.temperature <= 4000)

AnyCritical(v) ==
    \/ SpO2InCriticalBand(v)
    \/ HeartRateInCriticalBand(v)
    \/ TemperatureInCriticalBand(v)

WarningSignals(v) ==
    (IF SpO2InWarningBand(v) THEN 1 ELSE 0)
    + (IF HeartRateInWarningBand(v) THEN 1 ELSE 0)
    + (IF TemperatureInWarningBand(v) THEN 1 ELSE 0)

\* C8: a reading with a fall, or with at least one signal in its critical
\* band, is classified EMERGENCY whatever the other signals are.
C8_FallOrCriticalIsEmergency ==
    (pc = "analyzed" /\ (vitals.fall_detected \/ AnyCritical(vitals)))
        => health_status = "EMERGENCY"

C8_Witness ==
    /\ pc = "analyzed"
    /\ ~vitals.fall_detected
    /\ vitals.temperature = 4001
    /\ vitals.spo2 = 93
    /\ vitals.heart_rate = 119
    /\ health_status = "EMERGENCY"

\* C9: without a fall and without a critical signal, one signal in its
\* warning band gives WARNING and two or three give CRITICAL; the readings
\* spo2 = 85, heart_rate = 40 and 150, temperature = 35.0 and 40.0 are in the
\* warning band.
C9_WarningSignalsDecide ==
    (pc = "analyzed" /\ ~vitals.fall_detected /\ ~AnyCritical(vitals)) =>
        /\ WarningSignals(vitals) = 1 => health_status = "WARNING"
        /\ WarningSignals(vitals) >= 2 => health_status = "CRITICAL"
        /\ vitals.spo2 = 85 => health_status \in {"WARNING", "CRITICAL"}
        /\ vitals.heart_rate \in {40, 150}
               => health_status \in {"WARNING", "CRITICAL"}
        /\ vitals.temperature \in {3500, 4000}
               => health_status \in {"WARNING", "CRITICAL"}

C9_Witness ==
    /\ pc = "analyzed"
    /\ ~vitals.fall_detected
    /\ vitals.spo2 = 85
    /\ vitals.heart_rate = 150
    /\ vitals.temperature = 4000
    /\ health_status = "CRITICAL"

\* C10: a reading with spo2 >= 92, 45 <= heart_rate <= 120,
\* 35.5 <= temperature <= 38.5 and no fall is classified NORMAL, the
\* boundary values included.
C10_NormalBandIsNormal ==
    ( /\ pc = "analyzed"
      /\ vitals.spo2 >= 92
      /\ 45 <= vitals.heart_rate /\ vitals.heart_rate <= 120
      /\ 3550 <= vitals.temperature /\ vitals.temperature <= 3850
      /\ ~vitals.fall_detected )
        => health_status = "NORMAL"

C10_Witness ==
    /\ pc = "analyzed"
    /\ vitals.spo2 = 92
    /\ vitals.heart_rate = 120
    /\ vitals.temperature = 3550
    /\ ~vitals.fall_detected
    /\ health_status = "NORMAL"


-----------------------------------------------------------------------------
(* The simulated source: simulate_sensor_readings at call number n *)

\* random.randint(a, b)
randint(a, b) == a..b

\* round(random.uniform(a, b), 2), a and b in hundredths
uniform(a, b) == a..b

\* simulate_sensor_readings testing the counter before it is incremented
simulate_sensor_readings_late(n) ==
    [spo2 : IF (n - 1) % 8 = 0 THEN randint(87, 91) ELSE randint(95, 99),
     heart_rate :
         IF (n - 1) % 12 = 0 THEN randint(122, 135) ELSE randint(70, 90),
     temperature : uniform(3620, 3720),
     fall_detected : {(n - 1) % 15 = 0}]

\* simulate_sensor_readings raising the heart rate every 9th call
simulate_sensor_readings_every_9th(n) ==
    [spo2 : IF n % 8 = 0 THEN randint(87, 91) ELSE randint(95, 99),
     heart_rate : IF n % 9 = 0 THEN randint(122, 135) ELSE randint(70, 90),
     temperature : uniform(3620, 3720),
     fall_detected : {n % 15 = 0}]

\* the readings simulate_sensor_readings can produce when
\* self.measurement_count has been incremented to n
simulate_sensor_readings(n) ==
    [spo2 : IF n % 8 = 0 THEN randint(87, 91) ELSE randint(95, 99),
     heart_rate : IF n % 12 = 0 THEN randint(122, 135) ELSE randint(70, 90),
     temperature : uniform(3620, 3720),
     fall_detected : {n % 15 = 0}]

\* the monitor after any number of calls below MaxCalls
InitSource ==
    /\ current_state = "SLEEP"
    /\ health_status = "NORMAL"
    /\ vitals = VitalSigns
    /\ monitoring_interval = NORMAL_INTERVAL
    /\ anomaly_count = 0
    /\ emergency_sent = FALSE
    /\ measurement_count \in 0..(MaxCalls - 1)
    /\ cycle_count = 0
    /\ sent = << >>
    /\ delivered = "none"
    /\ slept = 0
    /\ pc = "init"
    /\ history = << >>
    /\ dashboard = MinerDashboard(MaxPoints)

\* self.simulate_sensor_readings() and
\* self.health_status = self.analyze_health()
Simulate ==
    /\ pc = "init"
    /\ measurement_count' = measurement_count + 1
    /\ vitals' \in simulate_sensor_readings(measurement_count + 1)
    /\ health_status' = analyze_health(vitals')
    /\ pc' = "measured"
    /\ UNCHANGED <<current_state, monitoring_interval, anomaly_count,
                   emergency_sent, cycle_count, sent, delivered, slept,
                   history, dashboard>>

NextSource == Simulate

SpecSource == InitSource /\ [][NextSource]_vars

-----------------------------------------------------------------------------
(* Claims C11 to C20 *)

C12_OnlyThreeStatesOccupied ==
    /\ current_state \in {"SLEEP", "EXTENDED_MONITORING", "EMERGENCY"}
    /\ current_state \notin {"WAKING", "MONITORING", "TRANSMITTING"}
    /\ \A i \in Cycles :
           history[i].post.current_state
               \in {"SLEEP", "EXTENDED_MONITORING", "EMERGENCY"}

\* each of the three states has been occupied at the end of a cycle
C12_Witness ==
    /\ \E i \in Cycles : history[i].post.current_state = "SLEEP"
    /\ \E i \in Cycles : history[i].post.current_state = "EXTENDED_MONITORING"
    /\ \E i \in Cycles : history[i].post.current_state = "EMERGENCY"


\* C13: at call number n the simulated source gives spo2 in 87..91 exactly
\* when 8 divides n (95..99 otherwise), heart_rate in 122..135 exactly when
\* 12 divides n (70..90 otherwise) and a fall exactly when 15 divides n; the
\* status of the reading is EMERGENCY when 15 divides n, else CRITICAL when
\* 24 divides n, else WARNING when 8 or 12 divides n, else NORMAL.
C13_SimulatedCadence ==
    pc = "measured" =>
        LET n == measurement_count
        IN /\ vitals.spo2 \in 87..91 <=> n % 8 = 0
           /\ n % 8 # 0 => vitals.spo2 \in 95..99
           /\ vitals.heart_rate \in 122..135 <=> n % 12 = 0
           /\ n % 12 # 0 => vitals.heart_rate \in 70..90
           /\ vitals.fall_detected <=> n % 15 = 0
           /\ health_status =
                  IF n % 15 = 0 THEN "EMERGENCY"
                  ELSE IF n % 24 = 0 THEN "CRITICAL"
                  ELSE IF n % 8 = 0 \/ n % 12 = 0 THEN "WARNING"
                  ELSE "NORMAL"

C13_Witness ==
    /\ pc = "measured"
    /\ measurement_count = 24
    /\ vitals.spo2 = 91
    /\ vitals.heart_rate = 122
    /\ ~vitals.fall_detected
    /\ health_status = "CRITICAL"


\* the latest cycle
Latest == history[Len(history)]

\* C14: an EMERGENCY cycle entered with the latch clear ends with the latch
\* set whether its transmission arrived or failed, and an EMERGENCY cycle
\* entered with the latch set makes no transmission, also when the
\* transmission before it failed.
C14_LatchSetWhateverTheOutcome ==
    (pc = "cycle_end" /\ Latest.status = "EMERGENCY") =>
        /\ emergency_sent
        /\ ~Latest.pre.emergency_sent =>
               (Latest.flags = <<TRUE>> /\ delivered \in {"ok", "failed"})
        /\ Latest.pre.emergency_sent => Latest.flags = << >>

C14_Witness ==
    /\ Len(history) = 3
    /\ \A i \in 1..3 : history[i].status = "EMERGENCY"
    /\ history[1].flags = <<TRUE>>
    /\ delivered = "failed"
    /\ history[1].post.emergency_sent
    /\ history[2].flags = << >>
    /\ history[3].flags = << >>
    /\ emergency_sent

\* C16: after a WARNING cycle the interval is not longer than before it, and
\* a state that was EMERGENCY is still EMERGENCY.
C16_WarningNeverDeescalates ==
    \A i \in Cycles :
        history[i].status = "WARNING" =>
            /\ history[i].post.monitoring_interval
                   <= history[i].pre.monitoring_interval
            /\ history[i].pre.current_state = "EMERGENCY"
                   => history[i].post.current_state = "EMERGENCY"

\* C17: a transmission reports the status classified in the cycle that makes
\* it and the reading acquired in that cycle.
C17_TransmissionCarriesCurrentCycle ==
    pc = "cycle_end" =>
        \A i \in 1..Len(sent) :
            /\ sent[i].health_status = health_status
            /\ sent[i].health_status = Latest.status
            /\ sent[i].vitals = vitals

C17_Witness ==
    /\ Len(history) = 2
    /\ history[1].status = "WARNING"
    /\ history[2].status = "CRITICAL"
    /\ Len(sent) = 1
    /\ sent[1].health_status = "CRITICAL"
    /\ sent[1].vitals.spo2 = 90
    /\ sent[1].vitals.heart_rate = 130

\* C18 as stated: the sleep of a cycle lasts the monitoring interval selected
\* by the cycle before it.
C18_SleepLastsTheInterval ==
    \A i \in Cycles : history[i].slept = history[i].pre.monitoring_interval

\* C18, amended: the sleep of a cycle lasts the smaller of the selected
\* interval and 2 seconds, which is 2 seconds for each of 35, 10 and 5.
C18_SleepIsCapped ==
    /\ \A i \in Cycles :
           /\ history[i].slept =
                  IF history[i].pre.monitoring_interval < 2
                  THEN history[i].pre.monitoring_interval ELSE 2
           /\ history[i].slept = 2
    /\ pc = "cycle_end" => slept = 2

C18_Witness ==
    /\ \E i \in Cycles :
           history[i].pre.monitoring_interval = 35 /\ history[i].slept = 2
    /\ \E i \in Cycles :
           history[i].pre.monitoring_interval = 10 /\ history[i].slept = 2
    /\ \E i \in Cycles :
           history[i].pre.monitoring_interval = 5 /\ history[i].slept = 2

\* C19: a cycle makes at most one transmission, and only when its status is
\* CRITICAL or EMERGENCY; is_emergency is true exactly when the status is
\* EMERGENCY.
C19_OnlyCriticalAndEmergencyTransmit ==
    \A i \in Cycles :
        /\ Len(history[i].flags) <= 1
        /\ history[i].status \in {"NORMAL", "WARNING"}
               => history[i].flags = << >>
        /\ \A k \in 1..Len(history[i].flags) :
               history[i].flags[k] <=> history[i].status = "EMERGENCY"

\* a WARNING cycle that escalates without transmitting, then a CRITICAL and
\* an EMERGENCY cycle that transmit
C19_Witness ==
    /\ Len(history) = 4
    /\ history[1].status = "WARNING"
    /\ history[2].status = "WARNING"
    /\ history[2].post.current_state = "EXTENDED_MONITORING"
    /\ history[2].flags = << >>
    /\ history[3].status = "CRITICAL"
    /\ history[3].flags = <<FALSE>>
    /\ history[4].status = "EMERGENCY"
    /\ history[4].flags = <<TRUE>>

\* C20: at every cycle boundary, interval 5 goes with EMERGENCY, interval 10
\* with EXTENDED_MONITORING, and SLEEP with interval 35.
C20_IntervalAndStateCoupled ==
    /\ monitoring_interval = 5 => current_state = "EMERGENCY"
    /\ monitoring_interval = 10 => current_state = "EXTENDED_MONITORING"
    /\ current_state = "SLEEP" => monitoring_interval = 35

C20_Witness ==
    /\ Len(history) = 3
    /\ history[1].status = "EMERGENCY"
    /\ history[2].status = "NORMAL"
    /\ history[3].status = "CRITICAL"
    /\ monitoring_interval = 10
    /\ current_state = "EXTENDED_MONITORING"


-----------------------------------------------------------------------------
(* The run loop on its own simulated source *)

\* the readings of call n that the loop is run on: each signal at an end of
\* the range it is drawn from
LoopReadings(n) ==
    {v \in simulate_sensor_readings(n) :
        /\ v.spo2 \in {87, 91, 95, 99}
        /\ v.heart_rate \in {70, 90, 122, 135}
        /\ v.temperature \in {3620, 3720}}

\* One cycle of the loop of run() as the program runs it: the sleep phase,
\* simulate_sensor_readings, analyze_health, handle_health_status and the
\* end of the cycle.
RunSimCycle ==
    /\ measurement_count < MaxCalls
    /\ \E v \in LoopReadings(measurement_count + 1) :
        LET nap == sleep_phase(monitoring_interval)
            status == analyze_health(v)
            c == handle_health_status(Controller, status, v, status)
        IN /\ slept' = nap
           /\ vitals' = v
           /\ measurement_count' = measurement_count + 1
           /\ cycle_count' = cycle_count + 1
           /\ health_status' = status
           /\ monitoring_interval' = c.monitoring_interval
           /\ anomaly_count' = c.anomaly_count
           /\ emergency_sent' = c.emergency_sent
           /\ sent' = c.sent
           /\ delivered' \in Outcomes(c)
           /\ current_state' = end_of_cycle(c.current_state)
           /\ pc' = "cycle_end"
           /\ history' = Append(history, Observe(status, Controller, c, nap))
           /\ UNCHANGED dashboard

NextSim == RunSimCycle

SpecSim == Init /\ [][NextSim]_vars

-----------------------------------------------------------------------------
(* The two classifiers on the same reading *)

\* health_status = self.analyze_health(heart_rate, spo2, temperature) and
\* self.dashboard.set_health_status(health_status) of the dashboard's run(),
\* on the three values of the reading
GraphicalAnalyze ==
    /\ pc = "analyzed"
    /\ dashboard' =
           set_health_status(dashboard,
               graphical_analyze_health(vitals.heart_rate, vitals.spo2,
                                        vitals.temperature))
    /\ pc' = "compared"
    /\ UNCHANGED <<current_state, health_status, vitals, monitoring_interval,
                   anomaly_count, emergency_sent, measurement_count,
                   cycle_count, sent, delivered, slept, history>>

NextCompare == Analyze \/ GraphicalAnalyze

SpecCompare == InitClassify /\ [][NextCompare]_vars

-----------------------------------------------------------------------------
(* The dashboard on its own *)

\* self.dashboard.add_measurement(...)
AddMeasurement(heart_rate, spo2, temperature, power_active) ==
    /\ dashboard.measurement_count < MaxMeasurements
    /\ dashboard' =
           add_measurement(dashboard, heart_rate, spo2, temperature,
                           power_active)
    /\ UNCHANGED <<current_state, health_status, vitals, monitoring_interval,
                   anomaly_count, emergency_sent, measurement_count,
                   cycle_count, sent, delivered, slept, pc, history>>

\* self.dashboard.set_health_status(status)
SetHealthStatus(status) ==
    /\ dashboard' = set_health_status(dashboard, status)
    /\ UNCHANGED <<current_state, health_status, vitals, monitoring_interval,
                   anomaly_count, emergency_sent, measurement_count,
                   cycle_count, sent, delivered, slept, pc, history>>

NextDashboard ==
    \/ \E heart_rate \in {70, 130}, spo2 \in {96}, temperature \in {3650},
          power_active \in BOOLEAN :
           AddMeasurement(heart_rate, spo2, temperature, power_active)
    \/ \E status \in HealthStatus : SetHealthStatus(status)

SpecDashboard == Init /\ [][NextDashboard]_vars

-----------------------------------------------------------------------------
(* Claims C21 to C24 *)

Escalated == {"EXTENDED_MONITORING", "EMERGENCY"}

\* C21: once a cycle has ended with current_state EXTENDED_MONITORING or
\* EMERGENCY, every later cycle ends with one of the two, whatever its
\* status.
C21_EscalationIsPermanent ==
    /\ \A i, j \in Cycles :
           (i < j /\ history[i].post.current_state \in Escalated)
               => history[j].post.current_state \in Escalated
    /\ (\E i \in Cycles : history[i].post.current_state \in Escalated)
           => current_state \in Escalated

C21_Witness ==
    /\ Len(history) = 3
    /\ history[1].status = "EMERGENCY"
    /\ history[2].status = "NORMAL"
    /\ history[3].status = "NORMAL"
    /\ current_state = "EMERGENCY"
    /\ monitoring_interval = 35


\* C22: on its own simulated source the monitor never has anomaly_count
\* above 1, so no WARNING cycle escalates: every cycle that changes
\* current_state is a CRITICAL or an EMERGENCY cycle.
C22_SimulatedWarningsNeverEscalate ==
    /\ anomaly_count <= 1
    /\ \A i \in Cycles :
           /\ history[i].post.anomaly_count <= 1
           /\ history[i].post.current_state # history[i].pre.current_state
                  => history[i].status \in {"CRITICAL", "EMERGENCY"}

\* the whole period of 120 calls has run, with the two warnings closest to
\* each other (calls 8 and 12) and the warning next to an emergency (calls
\* 104 and 105)
C22_Witness ==
    /\ measurement_count = 120
    /\ Len(history) = 120
    /\ history[8].status = "WARNING"
    /\ history[12].status = "WARNING"
    /\ history[12].post.anomaly_count = 1
    /\ history[24].status = "CRITICAL"
    /\ history[104].status = "WARNING"
    /\ history[105].status = "EMERGENCY"
    /\ history[105].post.anomaly_count = 1
    /\ history[120].status = "EMERGENCY"
    /\ anomaly_count = 0


\* C23: on a reading without a fall the classifier of the dashboard returns
\* the status the classifier of the monitor returns.
C23_ClassifiersAgree ==
    (pc = "compared" /\ ~vitals.fall_detected)
        => dashboard.health_status = health_status

C23_Witness ==
    /\ pc = "compared"
    /\ ~vitals.fall_detected
    /\ vitals.heart_rate = 150
    /\ vitals.temperature = 4000
    /\ vitals.spo2 = 92
    /\ health_status = "CRITICAL"
    /\ dashboard.health_status = "CRITICAL"

StrictlyIncreasing(q) == \A i, j \in 1..Len(q) : i < j => q[i] < q[j]

\* C24: after any number of add_measurement calls the indices in time_data
\* are strictly increasing and the six buffers have the same length, at most
\* max_data_points.
C24_TimeIndicesIncrease ==
    /\ StrictlyIncreasing(dashboard.time_data)
    /\ Len(dashboard.time_data) <= dashboard.max_points
    /\ \A q \in {dashboard.heart_rate_data, dashboard.spo2_data,
                 dashboard.temperature_data, dashboard.battery_data,
                 dashboard.power_mode_data} :
           Len(q) = Len(dashboard.time_data)

====
